---- MODULE Spec2Model ----
(***************************************************************************)
(* A model of nixstore-rs (src/src/main.rs): a client of the Nix daemon    *)
(* worker protocol over a duplex byte stream.                              *)
(*                                                                         *)
(* The functions of NixStoreConnection are operators over a connection     *)
(* record and return an outcome record [k, v, c]:                          *)
(*   k = "Ok"    the Rust function returned Ok(v)                          *)
(*   k = "Err"   it returned Err(v); v is a tuple <<variant, payload...>>  *)
(*   k = "Panic" it did not return: panic! or an allocation abort          *)
(*   k = "Block" it is blocked in a read for bytes the peer has not sent   *)
(* and c is the connection as the function left it.                        *)
(*                                                                         *)
(* A u64 is held as its eight base-256 digits, least significant first     *)
(* (the bytes of its little-endian encoding): values up to 2^64 do not fit *)
(* the model checker's integers.  FromLE gives the number of a u64 below   *)
(* 2^31.  usize is taken to be 64 bits wide, so `as usize` changes nothing.*)
(***************************************************************************)
EXTENDS Integers, Sequences, FiniteSets, TLC

VARIABLES conn, pc, call, ret, sent

vars == <<conn, pc, call, ret, sent>>

----
\* Program constants (src/src/main.rs:38-50).
WORKER_MAGIC_1 == 1852405859
WORKER_MAGIC_2 == 1685612911
STDERR_NEXT == 1869376871
STDERR_READ == 1684108385
STDERR_WRITE == 1684108310
STDERR_LAST == 1634497651
STDERR_ERROR == 1668838512
STDERR_START_ACTIVITY == 1398035028
STDERR_STOP_ACTIVITY == 1398034256
STDERR_RESULT == 1381190740
PROTOCOL_VERSION == 290
WOP_IS_VALID_PATH == 1
WOP_QUERY_VALID_PATHS == 31

\* Bounds of the model.
MaxReply == 5
MaxMem == 16
MaxFrames == 4
MaxLen == 9

----
\* u64 values and their little-endian bytes.

Byte == 0..255

Repeat(b, n) == [i \in 1..n |-> b]

\* WriteBytesExt::write_u64::<LittleEndian>, for the values the client writes
\* (constants and lengths, all below 2^31).
ToLE(n) ==
    << n % 256, (n \div 256) % 256, (n \div 65536) % 256,
       (n \div 16777216) % 256, 0, 0, 0, 0 >>

Fits(w) == w[5] = 0 /\ w[6] = 0 /\ w[7] = 0 /\ w[8] = 0 /\ w[4] < 128

\* ReadBytesExt::read_u64::<LittleEndian>: the number of eight bytes.
FromLE(w) == w[1] + 256 * w[2] + 65536 * w[3] + 16777216 * w[4]

\* v == n, for a u64 v and a number n below 2^31.
Is(w, n) == Fits(w) /\ FromLE(w) = n

\* len % 8 of a u64: 256 is a multiple of 8.
Mod8(w) == w[1] % 8

\* len + padding wraps around 2^64 (padding < 8).
AddOverflows(w, p) ==
    /\ \A i \in 2..8 : w[i] = 255
    /\ w[1] + p >= 256

\* len + padding > isize::MAX, when it does not wrap.
ExceedsIsize(w, p) ==
    \/ w[8] >= 128
    \/ /\ w[8] = 127
       /\ \A i \in 2..7 : w[i] = 255
       /\ w[1] + p >= 256

\* A loop bound `0..n`: the number, or -1 for a count no stream of the model
\* reaches (counting down from it never arrives at 0).
Count(w) == IF Fits(w) THEN FromLE(w) ELSE 0 - 1

----
\* Outcomes.

Ok(c, v) == [k |-> "Ok", v |-> v, c |-> c]
Err(c, e) == [k |-> "Err", v |-> e, c |-> c]
Panic(c, m) == [k |-> "Panic", v |-> m, c |-> c]
Block(c) == [k |-> "Block", v |-> <<>>, c |-> c]

\* The ? operator: continue with F on Ok, return anything else to the caller.
\* (r is bound as a value, so that the call it stands for is evaluated once.)
Then(r, F(_)) ==
    CHOOSE y \in { IF x.k = "Ok" THEN F(x) ELSE x : x \in {r} } : TRUE

\* The call's trace of transport events: "w" a write, "f" a flush, "r" a read,
\* "L" the drain's break on STDERR_LAST; runs of one event are kept once.
Log(c, ev) ==
    IF c.trace # <<>> /\ c.trace[Len(c.trace)] = ev THEN c
    ELSE [c EXCEPT !.trace = Append(@, ev)]

----
\* The transport (T: Read + Write) and the process's stderr.

\* A faulty variant: a read that finds too few bytes gives up with an error
\* (a read with a timeout) where read_exact waits.
read_exact_gives_up(c, n) ==
    IF n = 0 THEN Ok(c, <<>>)
    ELSE IF Len(c.inp) >= n
    THEN Ok(Log([c EXCEPT !.inp = SubSeq(@, n + 1, Len(@))], "r"),
            SubSeq(c.inp, 1, n))
    ELSE Err(Log([c EXCEPT !.inp = <<>>], "r"), <<"Read">>)

\* Read::read_exact: n bytes, or an error at end of stream, or blocked.
read_exact(c, n) ==
    IF n = 0 THEN Ok(c, <<>>)
    ELSE IF Len(c.inp) >= n
    THEN Ok(Log([c EXCEPT !.inp = SubSeq(@, n + 1, Len(@))], "r"),
            SubSeq(c.inp, 1, n))
    ELSE IF c.eof THEN Err(Log([c EXCEPT !.inp = <<>>], "r"), <<"Read">>)
    ELSE Block(c)

\* Write::write_all: env.wleft is the number of bytes the transport still
\* takes (-1: any number).
write_all(c, bytes) ==
    IF bytes = <<>> THEN Ok(c, <<>>)
    ELSE IF c.env.wleft < 0
    THEN Ok(Log([c EXCEPT !.out = @ \o bytes], "w"), <<>>)
    ELSE IF c.env.wleft >= Len(bytes)
    THEN Ok(Log([c EXCEPT !.out = @ \o bytes,
                          !.env.wleft = @ - Len(bytes)], "w"), <<>>)
    ELSE Err(Log([c EXCEPT !.out = @ \o SubSeq(bytes, 1, c.env.wleft),
                           !.env.wleft = 0], "w"), <<"Write">>)

\* Write::flush
flush(c) ==
    IF c.env.flushOk
    THEN Ok(Log([c EXCEPT !.flushed = Len(c.out)], "f"), <<>>)
    ELSE Err(Log(c, "f"), <<"Flush">>)

\* std::io::stderr().write_all(..).map_err(Error::StderrWrite)
stderr_write_all(c, bytes) ==
    IF c.env.sinkOk THEN Ok([c EXCEPT !.sink = @ \o bytes], <<>>)
    ELSE Err(c, <<"StderrWrite">>)

\* An allocation of n elements (Vec::with_capacity, vec![0u8; n],
\* HashSet::with_capacity): beyond the address space it never succeeds;
\* below, it fails when it exceeds the memory env.mem (-1: no limit).
AllocFails(c, n) ==
    \/ n[8] # 0
    \/ /\ c.env.mem >= 0
       /\ ~(Fits(n) /\ FromLE(n) <= c.env.mem)

\* The bytes after the first of a UTF-8 sequence: each in 128..191.
Continuation(b, from, to) ==
    /\ Len(b) >= to
    /\ \A i \in from..to : b[i] >= 128 /\ b[i] <= 191

RECURSIVE ValidUTF8(_)
\* String::from_utf8's check (RFC 3629).
ValidUTF8(b) ==
    IF b = <<>> THEN TRUE
    ELSE LET h == b[1]
             Rest(n) == ValidUTF8(SubSeq(b, n + 1, Len(b)))
         IN  IF h < 128 THEN Rest(1)
             ELSE IF h >= 194 /\ h <= 223
             THEN Continuation(b, 2, 2) /\ Rest(2)
             ELSE IF h >= 224 /\ h <= 239
             THEN /\ Continuation(b, 2, 3)
                  /\ (h = 224 => b[2] >= 160)
                  /\ (h = 237 => b[2] <= 159)
                  /\ Rest(3)
             ELSE IF h >= 240 /\ h <= 244
             THEN /\ Continuation(b, 2, 4)
                  /\ (h = 240 => b[2] >= 144)
                  /\ (h = 244 => b[2] <= 143)
                  /\ Rest(4)
             ELSE FALSE

\* A faulty variant: the bytes are taken for a string unchecked.
from_utf8_unchecked(c, buf) == Ok(c, buf)

\* String::from_utf8(buf).map_err(Error::ParseUTF8)
from_utf8(c, buf) ==
    IF ValidUTF8(buf) THEN Ok(c, buf) ELSE Err(c, <<"ParseUTF8">>)

----
\* NixStoreConnection

read_u64(c) == read_exact(c, 8)

write_u64(c, value) == write_all(c, ToLE(value))

\* let padding = (8 - len%8) % 8;
read_padding(len) == (8 - Mod8(len)) % 8

\* A faulty variant: the padding is left on the buffer.
truncate_nothing(buf, len) == buf

\* buf.truncate(len)
truncate(buf, len) == SubSeq(buf, 1, len)

\* A faulty variant: pad bytes other than zero are refused.
read_string_checks_padding(c) ==
    Then(read_u64(c), LAMBDA r :
    LET len == r.v
        padding == read_padding(len)
    IN  IF AddOverflows(len, padding)
        THEN IF r.c.env.checked
             THEN Panic(r.c, <<"attempt to add with overflow">>)
             ELSE from_utf8(r.c, <<>>)
        ELSE IF ExceedsIsize(len, padding)
        THEN Panic(r.c, <<"capacity overflow">>)
        ELSE IF AllocFails(r.c, len)
        THEN Panic(r.c, <<"memory allocation failed">>)
        ELSE IF Fits(len) /\ FromLE(len) <= Len(r.c.inp)
        THEN Then(read_exact(r.c, FromLE(len) + padding), LAMBDA b :
                  IF \E i \in (FromLE(len) + 1)..Len(b.v) : b.v[i] # 0
                  THEN Err(b.c, <<"Read">>)
                  ELSE from_utf8(b.c, truncate(b.v, FromLE(len))))
        ELSE read_exact(r.c, Len(r.c.inp) + 1))

read_string(c) ==
    Then(read_u64(c), LAMBDA r :
    LET len == r.v
        padding == read_padding(len)
    IN  IF AddOverflows(len, padding)
        THEN IF r.c.env.checked
             THEN Panic(r.c, <<"attempt to add with overflow">>)
             ELSE \* len + padding is 0: nothing is read, truncate(len)
                  \* leaves the empty buffer.
                  from_utf8(r.c, <<>>)
        ELSE IF ExceedsIsize(len, padding)
        THEN Panic(r.c, <<"capacity overflow">>)
        ELSE IF AllocFails(r.c, len)
        THEN Panic(r.c, <<"memory allocation failed">>)
        ELSE IF Fits(len) /\ FromLE(len) <= Len(r.c.inp)
        THEN Then(read_exact(r.c, FromLE(len) + padding), LAMBDA b :
                  from_utf8(b.c, truncate(b.v, FromLE(len))))
        ELSE \* more bytes than the stream holds
             read_exact(r.c, Len(r.c.inp) + 1))

\* A faulty variant: the outer `% 8` is missing, a whole word pads a multiple of 8.
write_padding_eight(len) == Repeat(0, 8 - (len % 8))

\* &NULS[..(8-str.len()%8) % 8]
write_padding(len) == Repeat(0, (8 - (len % 8)) % 8)

write_string(c, str) ==
    Then(write_u64(c, Len(str)), LAMBDA a :
    Then(write_all(a.c, str), LAMBDA b :
    write_all(b.c, write_padding(Len(str)))))

RECURSIVE read_fields_loop_skips_unknown(_, _, _)
\* A faulty variant: a field of an unknown tag is taken for one u64 and left out.
read_fields_loop_skips_unknown(c, n, result) ==
    IF n = 0 THEN Ok(c, result)
    ELSE Then(read_u64(c), LAMBDA t :
         IF Is(t.v, 1)
         THEN Then(read_string(t.c), LAMBDA s :
                   read_fields_loop_skips_unknown(s.c, n - 1,
                       Append(result, <<"String", s.v>>)))
         ELSE Then(read_u64(t.c), LAMBDA i :
                   read_fields_loop_skips_unknown(i.c, n - 1,
                       IF Is(t.v, 0) THEN Append(result, <<"Int", i.v>>)
                       ELSE result)))

RECURSIVE read_fields_loop_int_unread(_, _, _)
\* A faulty variant: the value of an integer field is left unread.
read_fields_loop_int_unread(c, n, result) ==
    IF n = 0 THEN Ok(c, result)
    ELSE Then(read_u64(c), LAMBDA t :
         IF Is(t.v, 0)
         THEN read_fields_loop_int_unread(t.c, n - 1,
                                          Append(result, <<"Int", ToLE(0)>>))
         ELSE IF Is(t.v, 1)
         THEN Then(read_string(t.c), LAMBDA s :
                   read_fields_loop_int_unread(s.c, n - 1,
                       Append(result, <<"String", s.v>>)))
         ELSE Err(t.c, <<"UnsupportedFieldType", t.v>>))

RECURSIVE read_fields_loop(_, _, _)
read_fields_loop(c, n, result) ==
    IF n = 0 THEN Ok(c, result)
    ELSE Then(read_u64(c), LAMBDA t :
         IF Is(t.v, 0)
         THEN Then(read_u64(t.c), LAMBDA i :
                   read_fields_loop(i.c, n - 1,
                                    Append(result, <<"Int", i.v>>)))
         ELSE IF Is(t.v, 1)
         THEN Then(read_string(t.c), LAMBDA s :
                   read_fields_loop(s.c, n - 1,
                                    Append(result, <<"String", s.v>>)))
         ELSE Err(t.c, <<"UnsupportedFieldType", t.v>>))

read_fields(c) ==
    Then(read_u64(c), LAMBDA r :
    IF AllocFails(r.c, r.v)
    THEN Panic(r.c, <<"memory allocation failed">>)
    ELSE read_fields_loop(r.c, Count(r.v), <<>>))

\* The arms of process_stderr's match: each reads its frame's payload.

\* STDERR_WRITE
write_frame(c) ==
    Then(read_string(c), LAMBDA s :
    stderr_write_all(s.c, s.v))

\* A faulty variant: the parent activity id is left unread.
start_activity_no_parent(c) ==
    Then(read_u64(c), LAMBDA activity_id :
    Then(read_u64(activity_id.c), LAMBDA level :
    Then(read_u64(level.c), LAMBDA activity_type :
    Then(read_string(activity_type.c), LAMBDA description :
    read_fields(description.c)))))

\* STDERR_START_ACTIVITY
start_activity(c) ==
    Then(read_u64(c), LAMBDA activity_id :
    Then(read_u64(activity_id.c), LAMBDA level :
    Then(read_u64(level.c), LAMBDA activity_type :
    Then(read_string(activity_type.c), LAMBDA description :
    Then(read_fields(description.c), LAMBDA fields :
    read_u64(fields.c))))))

\* STDERR_STOP_ACTIVITY
stop_activity(c) == read_u64(c)

\* STDERR_RESULT
result_frame(c) ==
    Then(read_u64(c), LAMBDA activity_id :
    Then(read_u64(activity_id.c), LAMBDA result_type :
    read_fields(result_type.c)))

RECURSIVE process_stderr_loop(_)

\* A faulty variant: an unknown tag is skipped and the loop goes on.
unknown_frame_skipped(c, n) == process_stderr_loop(c)

\* n => panic!("Unimplemented stderr message: ...")
unknown_frame(c, n) == Panic(c, <<"Unimplemented stderr message", n>>)

process_stderr_loop(c) ==
    Then(read_u64(c), LAMBDA t :
    IF Is(t.v, STDERR_WRITE)
    THEN Then(write_frame(t.c), LAMBDA f : process_stderr_loop(f.c))
    ELSE IF Is(t.v, STDERR_START_ACTIVITY)
    THEN Then(start_activity(t.c), LAMBDA f : process_stderr_loop(f.c))
    ELSE IF Is(t.v, STDERR_STOP_ACTIVITY)
    THEN Then(stop_activity(t.c), LAMBDA f : process_stderr_loop(f.c))
    ELSE IF Is(t.v, STDERR_LAST)
    THEN Ok(Log(t.c, "L"), <<>>)
    ELSE IF Is(t.v, STDERR_RESULT)
    THEN Then(result_frame(t.c), LAMBDA f : process_stderr_loop(f.c))
    ELSE unknown_frame(t.c, t.v))

process_stderr(c) ==
    Then(flush(c), LAMBDA f : process_stderr_loop(f.c))

\* self.read_u64()? != WORKER_MAGIC_2
magic_mismatch(m) == ~Is(m, WORKER_MAGIC_2)

\* A faulty variant: the version check as `<`, so that newer daemons pass.
unsupported_version_older(v) == ~(Fits(v) /\ FromLE(v) >= PROTOCOL_VERSION)

\* self.daemon_version != PROTOCOL_VERSION
unsupported_version(v) == ~Is(v, PROTOCOL_VERSION)

\* A faulty variant: the client's version and the two zeros are written right
\* after the magic, before the daemon's magic and version are read.
init_writes_before_check(c) ==
    Then(write_u64(c, WORKER_MAGIC_1), LAMBDA a :
    Then(write_u64(a.c, PROTOCOL_VERSION), LAMBDA w1 :
    Then(write_u64(w1.c, 0), LAMBDA w2 :
    Then(write_u64(w2.c, 0), LAMBDA w3 :
    Then(read_u64(w3.c), LAMBDA m :
    IF magic_mismatch(m.v) THEN Err(m.c, <<"ProtocolMismatch">>)
    ELSE
    Then(read_u64(m.c), LAMBDA v :
    LET c1 == [v.c EXCEPT !.daemon_version = v.v]
    IN  IF unsupported_version(c1.daemon_version)
        THEN Err(c1, <<"UnsupportedProtocolVersion", c1.daemon_version>>)
        ELSE
    Then(flush(c1), LAMBDA f :
    Then(read_string(f.c), LAMBDA s :
    Then(process_stderr([s.c EXCEPT !.daemon_nix_version = s.v]), LAMBDA p :
    Ok(p.c, <<>>))))))))))

init(c) ==
    Then(write_u64(c, WORKER_MAGIC_1), LAMBDA a :
    Then(read_u64(a.c), LAMBDA m :
    IF magic_mismatch(m.v) THEN Err(m.c, <<"ProtocolMismatch">>)
    ELSE
    Then(read_u64(m.c), LAMBDA v :
    LET c1 == [v.c EXCEPT !.daemon_version = v.v]
    IN  IF unsupported_version(c1.daemon_version)
        THEN Err(c1, <<"UnsupportedProtocolVersion", c1.daemon_version>>)
        ELSE
    Then(write_u64(c1, PROTOCOL_VERSION), LAMBDA w1 :
    Then(write_u64(w1.c, 0), LAMBDA w2 :
    Then(write_u64(w2.c, 0), LAMBDA w3 :
    Then(flush(w3.c), LAMBDA f :
    Then(read_string(f.c), LAMBDA s :
    Then(process_stderr([s.c EXCEPT !.daemon_nix_version = s.v]), LAMBDA p :
    Ok(p.c, <<>>))))))))))

connect(connection) ==
    LET result == [connection EXCEPT !.daemon_version = ToLE(0),
                                     !.daemon_nix_version = <<>>]
    IN  Then(init(result), LAMBDA r : Ok(r.c, r.c))

\* A faulty variant: the answer compared with 1.
nonzero_is_one(result) == Is(result, 1)

\* result != 0
nonzero(result) == ~Is(result, 0)

\* A faulty variant: the answer is read before the drain.
is_valid_path_answer_first(c, path) ==
    Then(write_u64(c, WOP_IS_VALID_PATH), LAMBDA a :
    Then(write_string(a.c, path), LAMBDA b :
    Then(read_u64(b.c), LAMBDA result :
    Then(process_stderr(result.c), LAMBDA p :
    Ok(p.c, nonzero(result.v))))))

is_valid_path(c, path) ==
    Then(write_u64(c, WOP_IS_VALID_PATH), LAMBDA a :
    Then(write_string(a.c, path), LAMBDA b :
    Then(process_stderr(b.c), LAMBDA p :
    Then(read_u64(p.c), LAMBDA result :
    Ok(result.c, nonzero(result.v))))))

RECURSIVE write_paths(_, _)
\* for path in paths { self.write_string(path)?; }, in the set's iteration
\* order `paths`.
write_paths(c, paths) ==
    IF paths = <<>> THEN Ok(c, <<>>)
    ELSE Then(write_string(c, Head(paths)), LAMBDA w :
              write_paths(w.c, Tail(paths)))

RECURSIVE read_results(_, _, _)

RECURSIVE read_results_keeps_partial(_, _, _)
\* A faulty variant: a string that fails to read ends the loop with the set so far.
read_results_keeps_partial(c, n, result) ==
    IF n = 0 THEN Ok(c, result)
    ELSE LET s == read_string(c)
         IN  IF s.k = "Err" THEN Ok(s.c, result)
             ELSE IF s.k # "Ok" THEN s
             ELSE read_results_keeps_partial(s.c, n - 1, result \cup {s.v})

RECURSIVE read_results_overwrite(_, _, _)
\* A faulty variant: each string replaces the set read so far.
read_results_overwrite(c, n, result) ==
    IF n = 0 THEN Ok(c, result)
    ELSE Then(read_string(c), LAMBDA s :
              read_results_overwrite(s.c, n - 1, {s.v}))

\* for _ in 0..result_count { result.insert(self.read_string()?); }
read_results(c, n, result) ==
    IF n = 0 THEN Ok(c, result)
    ELSE Then(read_string(c), LAMBDA s :
              read_results(s.c, n - 1, result \cup {s.v}))

\* A faulty variant: the trailing flag is not written.
query_valid_paths_no_flag(c, paths) ==
    Then(write_u64(c, WOP_QUERY_VALID_PATHS), LAMBDA a :
    Then(write_u64(a.c, Len(paths)), LAMBDA b :
    Then(write_paths(b.c, paths), LAMBDA w :
    Then(process_stderr(w.c), LAMBDA p :
    Then(read_u64(p.c), LAMBDA result_count :
    IF AllocFails(result_count.c, result_count.v)
    THEN Panic(result_count.c, <<"memory allocation failed">>)
    ELSE read_results(result_count.c, Count(result_count.v), {}))))))

query_valid_paths(c, paths) ==
    Then(write_u64(c, WOP_QUERY_VALID_PATHS), LAMBDA a :
    Then(write_u64(a.c, Len(paths)), LAMBDA b :
    Then(write_paths(b.c, paths), LAMBDA w :
    Then(write_u64(w.c, 0), LAMBDA z :
    Then(process_stderr(z.c), LAMBDA p :
    Then(read_u64(p.c), LAMBDA result_count :
    IF AllocFails(result_count.c, result_count.v)
    THEN Panic(result_count.c, <<"memory allocation failed">>)
    ELSE read_results(result_count.c, Count(result_count.v), {})))))))

----
\* The environment: the caller, the transport's faults and the peer.

\* What a call finds: the transport takes any write, flush and the stderr
\* write succeed, memory is not short, overflow checks are off (a release
\* build).
NoFault ==
    [wleft |-> 0 - 1, flushOk |-> TRUE, sinkOk |-> TRUE, mem |-> 0 - 1,
     checked |-> FALSE]

\* One fault at a time: the transport breaks after 0, 8 or 20 bytes, flush
\* fails, stderr is closed, or memory is short.
Envs ==
    { NoFault,
      [NoFault EXCEPT !.wleft = 0],
      [NoFault EXCEPT !.wleft = 8],
      [NoFault EXCEPT !.wleft = 20],
      [NoFault EXCEPT !.flushOk = FALSE],
      [NoFault EXCEPT !.sinkOk = FALSE],
      [NoFault EXCEPT !.mem = MaxMem] }

\* The paths the caller asks about: "a", "b".
Paths == { <<97>>, <<98>> }

\* The orders in which a HashSet of paths can iterate.
Orders(P) ==
    { o \in UNION { [1..n -> P] : n \in {Cardinality(P)} } :
        \A i, j \in DOMAIN o : i # j => o[i] # o[j] }

\* The daemon's encoding of a u64 and of a string (zero padded).
PeerU64(n) == ToLE(n)
PeerString(s) == ToLE(Len(s)) \o s \o Repeat(0, (8 - (Len(s) % 8)) % 8)
PeerLast == PeerU64(STDERR_LAST)

\* What the peer sends in one piece: a u64, a string ("a", "c", a byte that
\* is no UTF-8), or a frame (WRITE "x", STOP_ACTIVITY 1, LAST).
PeerWords ==
    { 0, 1, 2, WORKER_MAGIC_2, PROTOCOL_VERSION, PROTOCOL_VERSION + 1,
      STDERR_ERROR }

PeerStrings == { <<>>, <<97>>, <<99>>, <<255>> }

PeerFrames ==
    { PeerU64(STDERR_WRITE) \o PeerString(<<120>>),
      PeerU64(STDERR_STOP_ACTIVITY) \o PeerU64(1),
      PeerLast }

PeerUnits ==
    { PeerU64(n) : n \in PeerWords } \cup
    { PeerString(s) : s \in PeerStrings } \cup PeerFrames

\* The worker protocol's reply to a call, in units: to connect, the magic,
\* the version, the daemon's version string, frames, LAST; to is_valid_path,
\* frames, LAST, a u64; to query_valid_paths, frames, LAST, a count and that
\* many strings.  Conforms: `units` is the beginning of such a reply.
Drain(units) ==
    IF \E i \in DOMAIN units : units[i] = PeerLast
    THEN CHOOSE i \in DOMAIN units :
             /\ units[i] = PeerLast
             /\ \A j \in 1..(i - 1) : units[j] # PeerLast
    ELSE 0

ConformsDrain(units) ==
    \A i \in DOMAIN units :
        units[i] \in PeerFrames /\ (units[i] = PeerLast => i = Len(units))

ConformsAnswer(op, t) ==
    IF op = "connect" THEN t = <<>>
    ELSE IF op = "is_valid_path"
    THEN Len(t) <= 1 /\ \A i \in DOMAIN t : t[i] \in { PeerU64(n) : n \in 0..2 }
    ELSE t # <<>> =>
           /\ t[1] \in { PeerU64(n) : n \in 0..2 }
           /\ Len(t) - 1 <= FromLE(t[1])
           /\ \A i \in 2..Len(t) :
                  t[i] \in { PeerString(s) : s \in { x \in PeerStrings : ValidUTF8(x) } }

ConformsReply(op, units) ==
    LET d == Drain(units)
    IN  IF d = 0 THEN ConformsDrain(units)
        ELSE /\ ConformsDrain(SubSeq(units, 1, d))
             /\ ConformsAnswer(op, SubSeq(units, d + 1, Len(units)))

Conforms(op, units) ==
    IF op = "connect"
    THEN /\ Len(units) >= 1 => units[1] = PeerU64(WORKER_MAGIC_2)
         /\ Len(units) >= 2 => units[2] = PeerU64(PROTOCOL_VERSION)
         /\ Len(units) >= 3 =>
                units[3] \in { PeerString(s) : s \in { x \in PeerStrings : ValidUTF8(x) } }
         /\ ConformsReply(op, SubSeq(units, 4, Len(units)))
    ELSE ConformsReply(op, units)

\* The connection before connect(): the transport, nothing sent either way.
Conn0 ==
    [inp |-> <<>>, eof |-> FALSE, out |-> <<>>, flushed |-> 0,
     sink |-> <<>>, trace |-> <<>>, env |-> NoFault,
     daemon_version |-> ToLE(0), daemon_nix_version |-> <<>>]

\* No call has ended: there is no value.
NoRet == [k |-> "None"]

\* The function a call runs.
Run(cl, c) ==
    IF cl.op = "connect" THEN connect(c)
    ELSE IF cl.op = "is_valid_path" THEN is_valid_path(c, cl.arg)
    ELSE IF cl.op = "query_valid_paths" THEN query_valid_paths(c, cl.arg)
    ELSE IF cl.op = "process_stderr" THEN process_stderr(c)
    ELSE IF cl.op = "write_string" THEN write_string(c, cl.arg)
    ELSE read_string(c)

\* A call starts: out, sink and trace are those of this call.
Begin(c, e) ==
    [c EXCEPT !.out = <<>>, !.flushed = 0, !.sink = <<>>, !.trace = <<>>,
              !.env = e]

\* An operation on this connection has returned an error: the call that just
\* ended, or one before it.
FailedBefore == call.failed \/ ret.k = "Err"

Init ==
    /\ conn = Conn0
    /\ pc = "new"
    /\ call = [op |-> "none", arg |-> <<>>, pre |-> <<>>, failed |-> FALSE]
    /\ ret = NoRet
    /\ sent = <<>>

CallConnect ==
    /\ pc = "new"
    /\ \E e \in Envs : conn' = Begin(conn, e)
    /\ call' = [op |-> "connect", arg |-> <<>>, pre |-> conn.inp,
                failed |-> FALSE]
    /\ pc' = "busy"
    /\ ret' = NoRet
    /\ sent' = <<>>

CallIsValidPath ==
    /\ pc = "idle"
    /\ \E e \in Envs : conn' = Begin(conn, e)
    /\ \E path \in Paths :
           call' = [op |-> "is_valid_path", arg |-> path, pre |-> conn.inp,
                    failed |-> FailedBefore]
    /\ pc' = "busy"
    /\ ret' = NoRet
    /\ sent' = <<>>

CallQueryValidPaths ==
    /\ pc = "idle"
    /\ \E e \in Envs : conn' = Begin(conn, e)
    /\ \E P \in SUBSET Paths : \E o \in Orders(P) :
           call' = [op |-> "query_valid_paths", arg |-> o,
                    pre |-> conn.inp, failed |-> FailedBefore]
    /\ pc' = "busy"
    /\ ret' = NoRet
    /\ sent' = <<>>

\* The call runs to its end: it returns (Ok or Err) or panics.  A failed
\* connect yields no connection; a panic ends the use of this one.
Return ==
    /\ pc = "busy"
    /\ LET r == Run(call, conn)
       IN  /\ r.k # "Block"
           /\ conn' = r.c
           /\ ret' = [k |-> r.k, v |-> IF call.op = "connect" /\ r.k = "Ok"
                                       THEN <<>> ELSE r.v]
           /\ pc' = IF r.k = "Panic" \/ (call.op = "connect" /\ r.k # "Ok")
                    THEN "dead" ELSE "idle"
    /\ UNCHANGED <<call, sent>>

\* The peer sends while the client waits for it: it follows the protocol
\* up to one unit, which is any unit.
PeerSend ==
    /\ pc = "busy"
    /\ ~conn.eof
    /\ Len(sent) < MaxReply
    /\ Conforms(call.op, sent)
    /\ Run(call, conn).k = "Block"
    /\ \E u \in PeerUnits :
           /\ conn' = [conn EXCEPT !.inp = @ \o u]
           /\ sent' = Append(sent, u)
    /\ UNCHANGED <<pc, call, ret>>

\* The peer closes the stream.
PeerClose ==
    /\ pc = "busy"
    /\ ~conn.eof
    /\ Run(call, conn).k = "Block"
    /\ conn' = [conn EXCEPT !.eof = TRUE]
    /\ UNCHANGED <<pc, call, ret, sent>>

Next ==
    \/ CallConnect
    \/ CallIsValidPath
    \/ CallQueryValidPaths
    \/ Return
    \/ PeerSend
    \/ PeerClose

Spec == Init /\ [][Next]_vars

\* Calls on a transport without faults, on a connection that has not failed
\* and has read all that was sent to it; and the caller's thread runs: a call
\* that can go on to its end does so.  (The functions are synchronous; only a
\* read of bytes not yet sent waits.)
CleanCall == conn'.env = NoFault /\ ~call'.failed /\ call'.pre = <<>>

NextLive ==
    \/ CallConnect /\ CleanCall
    \/ CallIsValidPath /\ CleanCall
    \/ CallQueryValidPaths /\ CleanCall
    \/ Return
    \/ PeerSend
    \/ PeerClose

SpecLive == Init /\ [][NextLive]_vars /\ WF_vars(Return)

----
\* process_stderr on its own: the peer has sent a sequence of frames, then a
\* terminator, then the bytes that follow the drain, and has closed.

RECURSIVE Concat(_)
Concat(seqs) == IF seqs = <<>> THEN <<>> ELSE Head(seqs) \o Concat(Tail(seqs))

\* The daemon's encoding of a field, of a field list and of a frame.
PeerField(f) ==
    IF f[1] = "Int" THEN PeerU64(0) \o PeerU64(f[2])
    ELSE PeerU64(1) \o PeerString(f[2])

PeerFields(fs) ==
    PeerU64(Len(fs)) \o Concat([i \in DOMAIN fs |-> PeerField(fs[i])])

PeerFrame(f) ==
    IF f.tag = "WRITE" THEN PeerU64(STDERR_WRITE) \o PeerString(f.s)
    ELSE IF f.tag = "START_ACTIVITY"
    THEN PeerU64(STDERR_START_ACTIVITY) \o PeerU64(f.id) \o PeerU64(f.level)
         \o PeerU64(f.type) \o PeerString(f.s) \o PeerFields(f.fields)
         \o PeerU64(f.parent)
    ELSE IF f.tag = "STOP_ACTIVITY"
    THEN PeerU64(STDERR_STOP_ACTIVITY) \o PeerU64(f.id)
    ELSE PeerU64(STDERR_RESULT) \o PeerU64(f.id) \o PeerU64(f.type)
         \o PeerFields(f.fields)

\* Well-formed frames: those of the plain kind, and two whose payload holds
\* the values of frame tags.
WriteX == [tag |-> "WRITE", s |-> <<120>>]
Start1 ==
    [tag |-> "START_ACTIVITY", id |-> 1, level |-> 0, type |-> 0,
     s |-> <<100>>, fields |-> <<>>, parent |-> 0]
StartTags ==
    [tag |-> "START_ACTIVITY", id |-> STDERR_LAST, level |-> STDERR_WRITE,
     type |-> STDERR_RESULT, s |-> <<>>,
     fields |-> << <<"Int", STDERR_LAST>>, <<"String", <<97, 98>>>> >>,
     parent |-> STDERR_LAST]
Stop1 == [tag |-> "STOP_ACTIVITY", id |-> 1]
Result1 == [tag |-> "RESULT", id |-> 1, type |-> 0, fields |-> <<>>]
ResultTags ==
    [tag |-> "RESULT", id |-> STDERR_STOP_ACTIVITY, type |-> STDERR_LAST,
     fields |-> << <<"String", <<195, 169>>>>, <<"Int", STDERR_LAST>> >>]

DrainFrames == { WriteX, Start1, StartTags, Stop1, Result1, ResultTags }

FrameSeqs == UNION { [1..n -> DrainFrames] : n \in 0..MaxFrames }

\* What ends the sequence: LAST; a u64 that is no tag this client knows; a
\* RESULT frame whose field has tag 2, or a START_ACTIVITY frame whose second
\* field has the value of STDERR_LAST for its tag; a WRITE frame whose string
\* is no UTF-8; or the end of the stream.
Terminators ==
    { [kind |-> "last", bytes |-> PeerLast] } \cup
    { [kind |-> "unknown", bytes |-> PeerU64(t)] :
        t \in { STDERR_ERROR, STDERR_NEXT, STDERR_READ, 0 } } \cup
    { [kind |-> "field", bytes |-> PeerU64(STDERR_RESULT) \o PeerU64(1)
                    \o PeerU64(0) \o PeerU64(1) \o PeerU64(2)],
      [kind |-> "field", bytes |-> PeerU64(STDERR_START_ACTIVITY)
                    \o PeerU64(1) \o PeerU64(0) \o PeerU64(0)
                    \o PeerString(<<100>>) \o PeerU64(2)
                    \o PeerField(<<"Int", STDERR_LAST>>)
                    \o PeerU64(STDERR_LAST)],
      [kind |-> "utf8", bytes |-> PeerU64(STDERR_WRITE) \o PeerString(<<255>>)],
      [kind |-> "eof", bytes |-> <<>>] }

\* The bytes after the terminator: they begin like a LAST tag.
DrainRest(t) == IF t.kind = "eof" THEN <<>> ELSE PeerLast \o PeerU64(1)

DrainEnvs == { NoFault, [NoFault EXCEPT !.sinkOk = FALSE] }

InitDrain ==
    \E fs \in FrameSeqs : \E t \in Terminators : \E e \in DrainEnvs :
        LET stream == Concat([i \in DOMAIN fs |-> PeerFrame(fs[i])])
                      \o t.bytes \o DrainRest(t)
        IN  /\ conn = [Conn0 EXCEPT !.inp = stream, !.eof = TRUE, !.env = e]
            /\ call = [op |-> "process_stderr",
                       arg |-> [frames |-> fs, term |-> t], pre |-> stream,
                       failed |-> FALSE]
            /\ pc = "busy"
            /\ ret = NoRet
            /\ sent = <<>>

NextDrain == Return

SpecDrain == InitDrain /\ [][NextDrain]_vars

----
\* The string codec on its own: write_string(s) onto a transport that brings
\* the bytes back, then read_string.

\* Strings of n bytes: of the letter a, of NUL characters, and of the
\* two-byte character U+00E9 (with a letter to make an odd length).
StringsOfLen(n) ==
    { Repeat(97, n), Repeat(0, n),
      [i \in 1..n |-> IF i % 2 = 0 THEN 169 ELSE IF i < n THEN 195 ELSE 97] }

CodecStrings == UNION { StringsOfLen(n) : n \in (0..MaxLen) \cup {63, 64, 65} }

InitCodec ==
    \E s \in CodecStrings :
        /\ conn = Conn0
        /\ call = [op |-> "write_string", arg |-> s, pre |-> <<>>,
                   failed |-> FALSE]
        /\ pc = "busy"
        /\ ret = NoRet
        /\ sent = <<>>

\* The transport brings what was written back to the reader.
Loopback ==
    /\ pc = "idle"
    /\ call.op = "write_string"
    /\ ret.k = "Ok"
    /\ conn' = [conn EXCEPT !.inp = conn.out]
    /\ call' = [op |-> "read_string", arg |-> call.arg, pre |-> conn.out,
                failed |-> FALSE]
    /\ pc' = "busy"
    /\ ret' = NoRet
    /\ UNCHANGED sent

NextCodec == Return \/ Loopback

SpecCodec == InitCodec /\ [][NextCodec]_vars

----
\* What the claims are stated over.

RECURSIVE Flatten(_)
Flatten(units) ==
    IF units = <<>> THEN <<>> ELSE Head(units) \o Flatten(Tail(units))

Range(f) == { f[i] : i \in DOMAIN f }

\* The bytes the call had to read: those left by the call before it and
\* those the peer sent during it.
Stream == call.pre \o Flatten(sent)

\* The i-th u64 of the stream, as sent.
Word(i) == SubSeq(Stream, 8 * i - 7, 8 * i)

\* The call of `op` has ended: it returned or panicked.
Returned(op) == pc \in {"idle", "dead"} /\ call.op = op /\ ret.k # "None"

\* The units after LAST: the answer to the call.
Answer == SubSeq(sent, Drain(sent) + 1, Len(sent))

\* The peer's reply is a whole reply of the protocol to query_valid_paths:
\* frames, LAST, a count and that many strings; Reported are the strings.
WholeQueryReply ==
    /\ call.pre = <<>>
    /\ Conforms("query_valid_paths", sent)
    /\ Drain(sent) > 0
    /\ Answer # <<>>
    /\ Len(Answer) = 1 + FromLE(Answer[1])

Reported ==
    { s \in PeerStrings : \E i \in 2..Len(Answer) : Answer[i] = PeerString(s) }

----
\* C1 (as stated): connect returns a ready connection if and only if the
\* peer replies with WORKER_MAGIC_2 and then with PROTOCOL_VERSION.
C1_ReadyIffMagicAndVersion ==
    Returned("connect") =>
        (ret.k = "Ok" <=>
            /\ Len(Stream) >= 16
            /\ Word(1) = ToLE(WORKER_MAGIC_2)
            /\ Word(2) = ToLE(PROTOCOL_VERSION))

\* C1 (amended): connect returns a ready connection only if the peer replied
\* with WORKER_MAGIC_2 and then with PROTOCOL_VERSION, and the connection then
\* holds the version string the daemon sent next; a first u64 other than
\* WORKER_MAGIC_2 fails with ProtocolMismatch, and a version v other than
\* PROTOCOL_VERSION fails with UnsupportedProtocolVersion(v).
C1_Handshake ==
    Returned("connect") =>
        /\ ret.k = "Ok" =>
              /\ Len(Stream) >= 24
              /\ Word(1) = ToLE(WORKER_MAGIC_2)
              /\ Word(2) = ToLE(PROTOCOL_VERSION)
              /\ LET e == PeerString(conn.daemon_nix_version)
                 IN  SubSeq(Stream, 17, 16 + Len(e)) = e
        /\ (Len(Stream) >= 8 /\ Word(1) # ToLE(WORKER_MAGIC_2)) =>
              ret = [k |-> "Err", v |-> <<"ProtocolMismatch">>]
        /\ ( /\ Len(Stream) >= 16
             /\ Word(1) = ToLE(WORKER_MAGIC_2)
             /\ Word(2) # ToLE(PROTOCOL_VERSION) ) =>
              ret = [k |-> "Err",
                     v |-> <<"UnsupportedProtocolVersion", Word(2)>>]

C1_Witness ==
    /\ Returned("connect")
    /\ ret.k = "Ok"
    /\ conn.daemon_nix_version = <<97>>

\* C3: every failure of connect, is_valid_path and query_valid_paths of the
\* kinds the error taxonomy lists is returned to the caller as an Err value.
C3_FailuresAreErr ==
    ( /\ call.op \in {"connect", "is_valid_path", "query_valid_paths"}
      /\ ret.k \in {"Err", "Panic"}
      /\ ret.v[1] \in { "Read", "Write", "Flush", "ProtocolMismatch",
                        "UnsupportedProtocolVersion", "UnsupportedFieldType",
                        "Unimplemented stderr message", "ParseUTF8" } )
    => ret.k = "Err"

\* C4 (as stated): a successful query_valid_paths(P) returns a subset of P,
\* whatever the daemon replies.
C4_ResultSubsetOfInput ==
    (Returned("query_valid_paths") /\ ret.k = "Ok") =>
        ret.v \subseteq Range(call.arg)

\* C4 (amended): a successful query_valid_paths(P) returns a subset of P when
\* every string the daemon reports after the drain is a member of P.
C4_SubsetWhenReportedInInput ==
    ( /\ Returned("query_valid_paths")
      /\ ret.k = "Ok"
      /\ WholeQueryReply
      /\ Reported \subseteq Range(call.arg) )
    => ret.v \subseteq Range(call.arg)

C4_Witness ==
    /\ Returned("query_valid_paths")
    /\ ret.k = "Ok"
    /\ WholeQueryReply
    /\ Range(call.arg) = { <<97>>, <<98>> }
    /\ Reported = { <<97>> }
    /\ ret.v = { <<97>> }

\* C5: a successful query_valid_paths returns exactly the strings the daemon
\* reported after the drain: it reads the count n and exactly n strings, and
\* the set holds each of them and nothing else.
C5_ExactlyReported ==
    Returned("query_valid_paths") =>
        /\ WholeQueryReply =>
              /\ ret.k = "Ok"
              /\ ret.v = Reported
              /\ conn.inp = <<>>
        /\ (ret.k = "Ok" /\ call.pre = <<>> /\ Conforms(call.op, sent)) =>
              WholeQueryReply

C5_Witness ==
    /\ Returned("query_valid_paths")
    /\ WholeQueryReply
    /\ Range(call.arg) = { <<97>>, <<98>> }
    /\ ret.k = "Ok"
    /\ ret.v = { <<97>>, <<99>> }

\* C6: is_valid_path returns true exactly when the u64 the daemon sends after
\* the LAST frame is not zero, and false exactly when it is zero.
C6_TrueIffNonZero ==
    ( /\ Returned("is_valid_path")
      /\ call.pre = <<>>
      /\ Drain(sent) > 0
      /\ ConformsDrain(SubSeq(sent, 1, Drain(sent)))
      /\ Len(Answer) = 1 )
    => /\ ret.k = "Ok"
       /\ ret.v = (SubSeq(Answer[1], 1, 8) # <<0, 0, 0, 0, 0, 0, 0, 0>>)

C6_Witness ==
    /\ Returned("is_valid_path")
    /\ call.pre = <<>>
    /\ Len(sent) = 3
    /\ sent[1] \in PeerFrames \ {PeerLast}
    /\ sent[2] = PeerLast
    /\ sent[3] = PeerU64(2)
    /\ ret.k = "Ok"
    /\ ret.v = TRUE

\* The bytes of the request of the call: the opcode and the path, or the
\* opcode, the count, the paths and the flag.
RequestLen ==
    IF call.op = "is_valid_path" THEN 8 + Len(PeerString(call.arg))
    ELSE 16 + Len(Concat([i \in DOMAIN call.arg |-> PeerString(call.arg[i])]))
         + 8

IsPrefix(a, b) == Len(a) <= Len(b) /\ a = SubSeq(b, 1, Len(a))

Delivered ==
    IF Conforms(call.op, sent) THEN Len(Answer) - 1 ELSE Len(Answer) - 2

\* The daemon announced n strings and the reply fails after fewer: the
\* stream ends, or the next string is no UTF-8.
FailsAfterSome ==
    /\ call.pre = <<>>
    /\ Drain(sent) > 0
    /\ Len(Answer) >= 1
    /\ \/ Conforms(call.op, sent)
       \/ /\ Len(Answer) >= 2
          /\ Conforms(call.op, SubSeq(sent, 1, Len(sent) - 1))
          /\ sent[Len(sent)] = PeerString(<<255>>)
    /\ Delivered < FromLE(Answer[1])

\* C10: a failure inside query_valid_paths ends the call with an error and no
\* set: when it fails after k < n of the n announced strings, it returns Err,
\* not the k strings.
C10_NoPartialResult ==
    (Returned("query_valid_paths") /\ FailsAfterSome) =>
        /\ ret.k = "Err"
        /\ ret.v \in { <<"Read">>, <<"ParseUTF8">> }

C10_Witness ==
    /\ Returned("query_valid_paths")
    /\ FailsAfterSome
    /\ FromLE(Answer[1]) = 2
    /\ Delivered = 1
    /\ ret = [k |-> "Err", v |-> <<"ParseUTF8">>]

\* C11: once an operation on a connection has returned an error, no later
\* operation on that connection completes successfully.
C11_NoSuccessAfterError ==
    ( /\ call.op \in {"is_valid_path", "query_valid_paths"}
      /\ Returned(call.op)
      /\ call.failed )
    => ret.k # "Ok"

\* The request of the call as the worker protocol has it: for
\* is_valid_path the opcode 1 and the path; for query_valid_paths the opcode
\* 31, the number of paths, the paths and a u64 0.
RequestBytes ==
    IF call.op = "is_valid_path"
    THEN PeerU64(1) \o PeerString(call.arg)
    ELSE PeerU64(31) \o PeerU64(Cardinality(Range(call.arg)))
         \o Concat([i \in DOMAIN call.arg |-> PeerString(call.arg[i])])
         \o PeerU64(0)

\* C15: what query_valid_paths(P) writes before the drain is the opcode 31,
\* the count |P|, each element of P once as a padded string, and a u64 0;
\* what is_valid_path writes is the opcode 1 and the padded path.
C15_RequestBytes ==
    ( /\ call.op \in {"is_valid_path", "query_valid_paths"}
      /\ Returned(call.op) )
    => /\ IsPrefix(conn.out, RequestBytes)
       /\ (\E i \in DOMAIN conn.trace : conn.trace[i] = "f") =>
              conn.out = RequestBytes
       /\ conn.env.wleft < 0 => conn.out = RequestBytes

C15_Witness ==
    /\ Returned("query_valid_paths")
    /\ call.arg = << <<98>>, <<97>> >>
    /\ ret.k = "Ok"
    /\ Len(conn.out) = 56
    /\ conn.out = RequestBytes

\* The peer has delivered the whole reply to the call: to connect the magic,
\* the version, the version string, frames and LAST; to is_valid_path frames,
\* LAST and a u64; to query_valid_paths frames, LAST, a count and that many
\* strings.
ReplyDelivered ==
    /\ Conforms(call.op, sent)
    /\ IF call.op = "connect"
       THEN Len(sent) >= 4 /\ sent[Len(sent)] = PeerLast
       ELSE IF call.op = "is_valid_path"
       THEN Drain(sent) > 0 /\ Len(Answer) = 1
       ELSE WholeQueryReply

\* The call is under way on a transport without faults and the peer has
\* followed the protocol so far.
Waiting ==
    /\ pc = "busy"
    /\ call.op \in {"connect", "is_valid_path", "query_valid_paths"}
    /\ call.pre = <<>>
    /\ conn.env = NoFault
    /\ ~conn.eof
    /\ Conforms(call.op, sent)

\* C16: there are no timeouts.  Once the peer has delivered well-formed
\* frames ending in LAST and the result, the call returns; while the peer has
\* delivered less and has not closed the stream, the call does not return
\* and gives no error: it stays as it is until the peer sends or closes.
C16_ReturnsOnlyOnReply ==
    /\ (Waiting /\ ReplyDelivered) ~> (pc = "idle" /\ ret.k = "Ok")
    /\ [][(Waiting /\ ~ReplyDelivered) =>
             /\ pc' = "busy"
             /\ ret' = NoRet
             /\ (conn'.eof \/ Len(sent') = Len(sent) + 1)]_vars

C16_Witness ==
    /\ Waiting
    /\ call.op = "is_valid_path"
    /\ sent = <<PeerU64(STDERR_STOP_ACTIVITY) \o PeerU64(1), PeerLast>>


HandshakeTrace == <<"w", "r", "w", "f", "r", "f", "r", "L">>

HandshakeBytes ==
    ToLE(WORKER_MAGIC_1) \o ToLE(PROTOCOL_VERSION) \o ToLE(0) \o ToLE(0)

\* C12: the handshake runs in a fixed order.  WORKER_MAGIC_1 is the first
\* value written; the client's version and two zero u64 are written only
\* after WORKER_MAGIC_2 and PROTOCOL_VERSION have been read; on a magic or a
\* version mismatch exactly 8 bytes have been written; the four u64 are
\* written and flushed before the version string is read, and the drain runs
\* once, after it; the caller gets a connection only when every step
\* succeeded.
C12_HandshakeOrder ==
    Returned("connect") =>
        /\ IsPrefix(conn.trace, HandshakeTrace)
        /\ IsPrefix(conn.out, HandshakeBytes)
        /\ Len(conn.out) > 8 =>
              /\ Len(Stream) >= 16
              /\ Word(1) = ToLE(WORKER_MAGIC_2)
              /\ Word(2) = ToLE(PROTOCOL_VERSION)
        /\ ( /\ ret.k = "Err"
             /\ ret.v[1] \in {"ProtocolMismatch", "UnsupportedProtocolVersion"} )
           => /\ conn.out = ToLE(WORKER_MAGIC_1)
              /\ conn.flushed = 0
        /\ Len(conn.trace) >= 5 =>
              /\ conn.out = HandshakeBytes
              /\ conn.flushed = Len(HandshakeBytes)
        /\ (pc = "idle") = (ret.k = "Ok")
        /\ ret.k = "Ok" => conn.trace = HandshakeTrace

C12_Witness ==
    /\ Returned("connect")
    /\ ret.k = "Ok"
    /\ Len(sent) = 5
    /\ sent[4] = PeerU64(STDERR_WRITE) \o PeerString(<<120>>)
    /\ conn.sink = <<120>>
    /\ conn.out = HandshakeBytes
    /\ conn.trace = HandshakeTrace

----
\* The drain alone (SpecDrain).

\* The payloads of the WRITE frames of a sequence, in order.
WritePayloads(fs) ==
    Concat([i \in DOMAIN fs |-> IF fs[i].tag = "WRITE" THEN fs[i].s ELSE <<>>])

\* Nothing but the stream can fail the drain: stderr takes the writes.
SinkTakes(fs) == conn.env.sinkOk \/ \A i \in DOMAIN fs : fs[i].tag # "WRITE"

\* C2: when the drain reads, where a frame tag stands, a u64 that is none of
\* WRITE, START_ACTIVITY, STOP_ACTIVITY, RESULT, LAST, it fails for good: it
\* does not return success, does not go on with the loop and reads no byte
\* after that tag.
C2_UnknownTagFatal ==
    ( /\ Returned("process_stderr")
      /\ call.arg.term.kind = "unknown"
      /\ SinkTakes(call.arg.frames) )
    => /\ ret.k \in {"Err", "Panic"}
       /\ pc = "dead"
       /\ conn.inp = DrainRest(call.arg.term)
       /\ conn.sink = WritePayloads(call.arg.frames)

C2_Witness ==
    /\ Returned("process_stderr")
    /\ call.arg.term.bytes = PeerU64(STDERR_ERROR)
    /\ call.arg.frames = <<WriteX, StartTags, Stop1>>
    /\ conn.env.sinkOk
    /\ ret.k = "Panic"

\* C8: for every sequence of well-formed frames followed by LAST,
\* process_stderr returns success, has read the frames up to and including the
\* LAST tag and no byte more, and has written to stderr the WRITE payloads, in
\* order, and nothing else.
C8_DrainsWellFormed ==
    ( /\ Returned("process_stderr")
      /\ call.arg.term.kind = "last"
      /\ SinkTakes(call.arg.frames) )
    => /\ ret.k = "Ok"
       /\ pc = "idle"
       /\ conn.inp = DrainRest(call.arg.term)
       /\ conn.sink = WritePayloads(call.arg.frames)

C8_Witness ==
    /\ Returned("process_stderr")
    /\ call.arg.term.kind = "last"
    /\ call.arg.frames = <<WriteX, Start1, Stop1, Result1>>
    /\ ret.k = "Ok"
    /\ conn.sink = <<120>>
    /\ conn.inp = PeerLast \o PeerU64(1)

\* The fields as read_fields returns them: Field::Int(u64), Field::String.
Decoded(fs) ==
    [i \in DOMAIN fs |->
        IF fs[i][1] = "Int" THEN <<"Int", ToLE(fs[i][2])>> ELSE fs[i]]

\* The field lists of the frames of a sequence.
FieldLists(fs) ==
    { fs[i].fields : i \in { j \in DOMAIN fs : fs[j].tag \in {"START_ACTIVITY", "RESULT"} } }

\* The field tag a terminator of kind "field" ends with.
BadFieldTag(t) == SubSeq(t.bytes, Len(t.bytes) - 7, Len(t.bytes))

\* C13: read_fields reads a count and that many (tag, value) pairs, tag 0 an
\* integer of one u64 and tag 1 a string, and leaves what follows unread; on
\* the first tag that is neither 0 nor 1 it fails with
\* UnsupportedFieldType(tag) and reads no byte after the tag, and the error
\* ends the START_ACTIVITY or RESULT frame it is in and the drain.
C13_FieldsDecoded ==
    Returned("process_stderr") =>
        /\ \A fl \in FieldLists(call.arg.frames) :
              LET rest == call.arg.term.bytes
                  r == read_fields([Conn0 EXCEPT !.inp = PeerFields(fl) \o rest,
                                                 !.eof = TRUE])
              IN  /\ r.k = "Ok"
                  /\ r.v = Decoded(fl)
                  /\ r.c.inp = rest
        /\ (call.arg.term.kind = "field" /\ SinkTakes(call.arg.frames)) =>
              /\ ret = [k |-> "Err",
                        v |-> <<"UnsupportedFieldType",
                                BadFieldTag(call.arg.term)>>]
              /\ conn.inp = DrainRest(call.arg.term)
              /\ conn.sink = WritePayloads(call.arg.frames)

C13_Witness ==
    /\ Returned("process_stderr")
    /\ call.arg.frames = <<WriteX, ResultTags>>
    /\ call.arg.term.kind = "field"
    /\ BadFieldTag(call.arg.term) = ToLE(STDERR_LAST)
    /\ conn.env.sinkOk
    /\ ret = [k |-> "Err", v |-> <<"UnsupportedFieldType", ToLE(STDERR_LAST)>>]
    /\ conn.inp = PeerLast \o PeerU64(1)

\* A frame of the sequence has the values of frame tags in its payload.
HasTagPayload(fs) == \E i \in DOMAIN fs : fs[i] \in {StartTags, ResultTags}

\* C17: the drain ends only on a LAST read where a frame tag stands.  A u64
\* equal to LAST or to another tag inside a frame (an activity id, level,
\* type, parent id, result type, integer field) is read as payload: it does
\* not end the loop and does not start a frame.
C17_OnlyTagPositionEnds ==
    Returned("process_stderr") =>
        /\ ret.k = "Ok" =>
              /\ call.arg.term.kind = "last"
              /\ conn.inp = DrainRest(call.arg.term)
        /\ (HasTagPayload(call.arg.frames) /\ SinkTakes(call.arg.frames)) =>
              /\ conn.sink = WritePayloads(call.arg.frames)
              /\ call.arg.term.kind = "last" => ret.k = "Ok"
              /\ call.arg.term.kind = "eof" =>
                    /\ ret.k = "Err"
                    /\ ret.v = <<"Read">>
                    /\ conn.inp = <<>>

C17_Witness ==
    /\ Returned("process_stderr")
    /\ call.arg.frames = <<ResultTags, StartTags, WriteX>>
    /\ call.arg.term.kind = "eof"
    /\ conn.sink = <<120>>
    /\ ret.k = "Err"

----
\* The string codec alone (SpecCodec).

\* The number of pad bytes after n bytes: the least p with n + p a multiple
\* of 8.
PadOf(n) == CHOOSE p \in 0..7 : (n + p) % 8 = 0

\* C7: write_string(s) writes 8 + len(s) + pad bytes, pad = (8 - len(s) mod 8)
\* mod 8 of them zero bytes after the length and the bytes of s, and
\* read_string of those bytes returns s and reads all of them.
C7_StringRoundTrip ==
    /\ Returned("write_string") =>
          /\ ret.k = "Ok"
          /\ Len(conn.out) = 8 + Len(call.arg) + PadOf(Len(call.arg))
          /\ PadOf(Len(call.arg)) = (8 - (Len(call.arg) % 8)) % 8
          /\ SubSeq(conn.out, 9, 8 + Len(call.arg)) = call.arg
          /\ \A i \in (9 + Len(call.arg))..Len(conn.out) : conn.out[i] = 0
    /\ Returned("read_string") =>
          /\ ret.k = "Ok"
          /\ ret.v = call.arg
          /\ conn.inp = <<>>
          /\ Len(call.pre) = 8 + Len(call.arg) + PadOf(Len(call.arg))

C7_Witness ==
    /\ Returned("read_string")
    /\ Len(call.arg) = 64
    /\ Len(call.pre) = 72
    /\ ret.k = "Ok"
    /\ ret.v = call.arg

----
\* read_string on streams of the peer's making: the peer has sent a length
\* word, payload bytes, pad bytes and what follows, where the client reads a
\* string, and has closed.

\* Byte sequences that are one character in UTF-8 (the ends of the ranges of
\* each length), and sequences no UTF-8 text contains: 0xFF, a lone
\* continuation byte, a lead byte without its continuation, overlong forms, a
\* surrogate, a code point above U+10FFFF, the lead bytes 0xF5 and 0xF8.
GoodSeqs ==
    { <<0>>, <<97>>, <<127>>, <<194, 128>>, <<223, 191>>, <<224, 160, 128>>,
      <<226, 130, 172>>, <<237, 159, 191>>, <<238, 128, 128>>,
      <<239, 191, 191>>, <<240, 144, 128, 128>>, <<244, 143, 191, 191>> }

BadSeqs ==
    { <<255>>, <<128>>, <<195>>, <<226, 130>>, <<240, 144, 128>>,
      <<192, 128>>, <<193, 191>>, <<224, 128, 128>>, <<240, 128, 128, 128>>,
      <<237, 160, 128>>, <<244, 144, 128, 128>>, <<245, 128, 128, 128>>,
      <<248>> }

\* Payloads: letters, then a character or nothing; letters, then a sequence
\* that is no UTF-8, then a letter or nothing.
ValidSamples ==
    { Repeat(97, n) \o g : n \in 0..MaxLen, g \in GoodSeqs \cup {<<>>} }

InvalidSamples ==
    { Repeat(97, n) \o b \o t :
        n \in 0..MaxLen, b \in BadSeqs, t \in {<<>>, <<97>>} }

\* The pad bytes are all of one value.
PadFills == {0, 1, 255}

\* Length words beyond 2^31: 2^64 - 1, 2^64 - 7, 2^64 - 8, 2^63, 2^63 - 1,
\* 2^32.
HugeWords ==
    { Repeat(255, 8),
      <<249>> \o Repeat(255, 7),
      <<248>> \o Repeat(255, 7),
      Repeat(0, 7) \o <<128>>,
      Repeat(255, 7) \o <<127>>,
      <<0, 0, 0, 0, 1, 0, 0, 0>> }

\* Where the client reads a string: read_string itself; the version string
\* of the handshake; a WRITE frame; the description of a START_ACTIVITY
\* frame; a string field of a RESULT frame; a result of query_valid_paths.
\* pre: what the peer sends before the string; rest: what it sends after it
\* to end the operation.
DecodeContexts ==
    { [name |-> "read_string", op |-> "read_string", pre |-> <<>>,
       rest |-> <<>>],
      [name |-> "version", op |-> "connect",
       pre |-> PeerU64(WORKER_MAGIC_2) \o PeerU64(PROTOCOL_VERSION),
       rest |-> PeerLast],
      [name |-> "write", op |-> "process_stderr",
       pre |-> PeerU64(STDERR_WRITE), rest |-> PeerLast],
      [name |-> "description", op |-> "process_stderr",
       pre |-> PeerU64(STDERR_START_ACTIVITY) \o PeerU64(1) \o PeerU64(0)
               \o PeerU64(0),
       rest |-> PeerU64(0) \o PeerU64(0) \o PeerLast],
      [name |-> "field", op |-> "process_stderr",
       pre |-> PeerU64(STDERR_RESULT) \o PeerU64(1) \o PeerU64(0)
               \o PeerU64(1) \o PeerU64(1),
       rest |-> PeerLast],
      [name |-> "result", op |-> "query_valid_paths",
       pre |-> PeerLast \o PeerU64(1), rest |-> <<>>] }

\* What follows the operation's input: it begins like a length word.
DecodeTail == PeerU64(1) \o <<97>>

\* The units of a string: the length word, the payload, the pad bytes, and
\* what follows the string.
DecodeUnits(ctx) ==
    { <<ToLE(Len(p)), p, Repeat(f, PadOf(Len(p))), ctx.rest \o DecodeTail>> :
        p \in ValidSamples \cup InvalidSamples, f \in PadFills }
    \cup
    IF ctx.name = "read_string"
    THEN { <<w, <<>>, <<>>, DecodeTail>> : w \in HugeWords }
    ELSE {}

\* A release build and a build with overflow checks.
DecodeEnvs == { NoFault, [NoFault EXCEPT !.checked = TRUE] }

InitDecode ==
    \E ctx \in DecodeContexts : \E e \in DecodeEnvs :
    \E u \in DecodeUnits(ctx) :
        /\ conn = [Conn0 EXCEPT !.inp = ctx.pre \o Concat(u), !.eof = TRUE,
                                !.env = e]
        /\ call = [op |-> ctx.op, arg |-> <<>>, pre |-> ctx.pre,
                   failed |-> FALSE]
        /\ pc = "busy"
        /\ ret = NoRet
        /\ sent = u

NextDecode == Return

SpecDecode == InitDecode /\ [][NextDecode]_vars

\* Where the string of the call stands.
Context ==
    (CHOOSE ctx \in DecodeContexts :
        ctx.op = call.op /\ ctx.pre = call.pre).name

\* The peer sent a string: a length word and that many payload bytes.
SentString == sent[1] = ToLE(Len(sent[2]))

\* What the operation did with the string it decoded, where it keeps it.
Kept ==
    IF Context = "read_string" THEN ret.v
    ELSE IF Context = "version" THEN conn.daemon_nix_version
    ELSE IF Context = "write" THEN conn.sink
    ELSE IF Context = "result" THEN CHOOSE x \in ret.v : TRUE
    ELSE sent[2]

\* C14: read_string fails with ParseUTF8 whenever the payload is not valid
\* UTF-8 and returns the payload as a string when it is; the error ends the
\* operation that was decoding (the handshake's version string, a WRITE frame,
\* an activity description, a string field, a result of query_valid_paths),
\* which then does not succeed.
C14_InvalidUTF8Fails ==
    (Returned(call.op) /\ SentString) =>
        /\ sent[2] \in InvalidSamples =>
              /\ ret.k = "Err"
              /\ ret.v = <<"ParseUTF8">>
              /\ conn.inp = sent[4]
              /\ conn.sink = <<>>
              /\ call.op = "connect" => pc = "dead"
        /\ sent[2] \in ValidSamples =>
              /\ ret.k = "Ok"
              /\ conn.inp = DecodeTail
              /\ Kept = sent[2]

C14_Witness ==
    /\ Returned("process_stderr")
    /\ Context = "description"
    /\ sent[2] = <<97, 237, 160, 128>>
    /\ ret = [k |-> "Err", v |-> <<"ParseUTF8">>]

\* The bytes the call read after the length word.
ReadAfterPrefix == Len(call.pre) + Len(Concat(sent)) - Len(conn.inp) - 8

\* C18: whenever read_string returns a string, the string has as many bytes
\* as the length word says and len + ((8 - len mod 8) mod 8) bytes have been
\* read after the length word; for every length word, also those near 2^64.
C18_LengthAndConsumption ==
    (Returned("read_string") /\ ret.k = "Ok") =>
        /\ Is(sent[1], Len(ret.v))
        /\ ReadAfterPrefix = Len(ret.v) + ((8 - (Len(ret.v) % 8)) % 8)

\* C19: read_string does not look at the pad bytes: for a length word and a
\* payload, the result and the number of bytes read are the same whatever
\* the pad bytes are.
C19_PaddingIgnored ==
    (Returned("read_string") /\ SentString) =>
        /\ ReadAfterPrefix = Len(sent[2]) + Len(sent[3])
        /\ conn.inp = DecodeTail
        /\ sent[2] \in ValidSamples =>
              /\ ret.k = "Ok"
              /\ ret.v = sent[2]
        /\ sent[2] \in InvalidSamples =>
              /\ ret.k = "Err"
              /\ ret.v = <<"ParseUTF8">>

C19_Witness ==
    /\ Returned("read_string")
    /\ sent[2] = <<97, 97, 97, 226, 130, 172>>
    /\ sent[3] = <<255, 255>>
    /\ ret.k = "Ok"
    /\ ret.v = sent[2]
    /\ conn.inp = DecodeTail

====
